---- MODULE Spec2Model ----
(***************************************************************************)
(* atomic_immut: AtomicImmut<T> (src/src/lib.rs).                          *)
(*                                                                         *)
(* The cell is an AtomicPtr slot holding the raw pointer of an Arc<T>,     *)
(* guarded by SpinRwLock, a reader/writer spin lock kept in one            *)
(* AtomicUsize.  Every atomic access of the source (SeqCst) is one step of *)
(* the thread that makes it; thread-local computation is folded into the   *)
(* step of the shared access that follows it.                              *)
(*                                                                         *)
(* The heap is a finite set of addresses.  The allocator may hand out any  *)
(* address that was freed before.  An address nobody remembers is as good  *)
(* as any other such address, so the allocator takes the next address      *)
(* never used so far only when every freed address is still remembered by  *)
(* some thread's stale pointer.                                            *)
(***************************************************************************)
EXTENDS Integers, FiniteSets

\* ------------------------------------------------------------------ bounds
NumThreads == 2         \* threads sharing the cell
MaxCalls == 2           \* load/store/swap/update calls issued in all (Spec)
MaxLoadStoreCalls == 3  \* load/store calls issued in all (SpecLoadStore)
UpdatesPerThread == 2   \* k of "N threads each call update k times" (SpecUpdate)
MaxVal == 0             \* values passed to new/store/swap are 0..MaxVal
MaxStores == 1          \* store calls issued in all (SpecReaders)

\* mem::size_of::<usize>() of the target; a 16-bit target keeps the lock
\* word within the model checker's integers.
USIZE_BYTES == 2

Threads == 1..NumThreads
Values == 0..MaxVal
NULL == 0
\* Enough addresses for the slot's allocation, the two allocations a call in
\* flight refers to and the handles kept from earlier calls, so that the
\* allocator never runs out (AllocatorNeverFull).
MaxOf(a, b) == IF a > b THEN a ELSE b
NumAddrs == 1 + NumThreads + MaxOf(NumThreads, MaxOf(MaxCalls, MaxLoadStoreCalls))
Addr == 1..NumAddrs

VARIABLES
    word,        \* SpinRwLock.0
    ptr,         \* AtomicImmut.ptr (NULL after drop)
    alive,       \* the cell has not been dropped
    live,        \* live[a]: address a holds an allocation (ArcInner) now
    rc,          \* rc[a]: strong count of the allocation at a
    val,         \* val[a]: the T at a
    brk,         \* highest address ever handed out
    fault,       \* a freed allocation was accessed (undefined behaviour)
    pc,          \* pc[t]: where thread t is
    op,          \* op[t]: the call thread t is in
    lold,        \* local `ptr` of load / `old` of swap and update
    lnew,        \* local `new` of swap and update
    held,        \* held[t][a]: handles (Arc<T>) to a that t got and kept
    ncalls,      \* ncalls[t]: calls started by t (SpecUpdate)
    calls,       \* calls started by all threads (Spec)
    \* history variables
    inst,        \* inst[a]: position of a's allocation in the order of slot
                 \*   installs (1 = by new), 0 = never installed
    epoch,       \* number of installs so far
    constructed, \* allocations made
    destroyed,   \* allocations freed
    opEpoch,     \* opEpoch[t]: epoch when t's call was invoked
    ldEpoch,     \* ldEpoch[t]: epoch when t's current load was invoked
    rdEpoch,     \* rdEpoch[t]: epoch when t's current load read the slot
    myInst,      \* myInst[t]: inst of the allocation t installed last
    iters        \* iters[t]: iterations begun (= calls of f) in t's update

heap == <<live, rc, val, brk, fault, inst, constructed, destroyed>>
locals_but_pc == <<op, lold, lnew, held, ncalls, calls>>
locals == <<pc, locals_but_pc>>
hist == <<epoch, opEpoch, ldEpoch, rdEpoch, myInst, iters>>
hist_kept == <<epoch, myInst>>
vars == <<word, ptr, alive, heap, locals, hist>>

\* ---------------------------------------------------------- SpinRwLock
reader_bits == (USIZE_BYTES * 8) \div 2
WordMod == 2 ^ (USIZE_BYTES * 8)
ONE_WRITER == 2 ^ reader_bits

fetch_add(w, d) == (w + d) % WordMod
fetch_sub(w, d) == (w + WordMod - d) % WordMod
\* mutant: the reader count (the low half) is taken for the writer count
writers_of_LowHalf(w) == w % (2 ^ reader_bits)

writers_of(w) == w \div (2 ^ reader_bits)

\* the closure passed to update in the tests of the specification
f(x) == x + 1

TypeOK ==
    /\ word \in 0..(WordMod - 1)
    /\ ptr \in Addr \cup {NULL}
    /\ alive \in BOOLEAN
    /\ live \in [Addr -> BOOLEAN]
    /\ rc \in [Addr -> Nat]
    /\ val \in [Addr -> Nat]
    /\ brk \in 0..NumAddrs
    /\ fault \in BOOLEAN
    /\ pc \in [Threads -> STRING]
    /\ op \in [Threads -> {"none", "load", "store", "swap", "update"}]
    /\ lold \in [Threads -> Addr \cup {NULL}]
    /\ lnew \in [Threads -> Addr \cup {NULL}]
    /\ held \in [Threads -> [Addr -> Nat]]
    /\ ncalls \in [Threads -> Nat]
    /\ calls \in Nat
    /\ inst \in [Addr -> Nat]
    /\ epoch \in Nat
    /\ constructed \in Nat
    /\ destroyed \in Nat
    /\ opEpoch \in [Threads -> Nat]
    /\ ldEpoch \in [Threads -> Nat]
    /\ rdEpoch \in [Threads -> Nat]
    /\ myInst \in [Threads -> Nat]
    /\ iters \in [Threads -> Nat]

\* ------------------------------------------------------------ Arc<T>
\* Arc::new followed by Arc::into_raw: a new allocation with strong count 1.
Allocated(a, v) ==
    /\ live' = [live EXCEPT ![a] = TRUE]
    /\ rc' = [rc EXCEPT ![a] = 1]
    /\ val' = [val EXCEPT ![a] = v]
    /\ inst' = [inst EXCEPT ![a] = 0]
    /\ brk' = IF a > brk THEN a ELSE brk
    /\ constructed' = constructed + 1
    /\ UNCHANGED <<fault, destroyed>>

\* The addresses the allocator may return: any freed address, and a fresh
\* one when no freed address is forgotten by every thread.
Freed == {a \in Addr : ~live[a] /\ a <= brk}
Forgotten == {a \in Freed : \A t \in Threads : lold[t] # a /\ lnew[t] # a}
FreeAddrs == Freed \cup (IF Forgotten = {} THEN {a \in Addr : a = brk + 1} ELSE {})

\* Arc::clone of an Arc rebuilt from the raw pointer a, then mem::forget:
\* the strong count goes up by one.  On freed memory the behaviour is
\* undefined: the write is lost or lands in the freed block.
StrongInc(a) ==
    IF live[a]
    THEN /\ rc' = [rc EXCEPT ![a] = @ + 1]
         /\ UNCHANGED <<live, val, brk, fault, inst, constructed, destroyed>>
    ELSE /\ fault' = TRUE
         /\ \E n \in {0, 1} : rc' = [rc EXCEPT ![a] = n]
         /\ UNCHANGED <<live, val, brk, inst, constructed, destroyed>>

\* Dropping an Arc rebuilt from the raw pointer a: the strong count goes down
\* by one and the allocation is freed when it reaches zero.  On freed memory
\* the behaviour is undefined: nothing happens or the block is freed again.
StrongDec(a) ==
    IF live[a] /\ rc[a] > 0
    THEN IF rc[a] = 1
         THEN /\ live' = [live EXCEPT ![a] = FALSE]
              /\ rc' = [rc EXCEPT ![a] = 0]
              /\ val' = [val EXCEPT ![a] = 0]
              /\ inst' = [inst EXCEPT ![a] = 0]
              /\ destroyed' = destroyed + 1
              /\ UNCHANGED <<brk, fault, constructed>>
         ELSE /\ rc' = [rc EXCEPT ![a] = @ - 1]
              /\ UNCHANGED <<live, val, brk, fault, inst, constructed, destroyed>>
    ELSE /\ fault' = TRUE
         /\ \E d \in {0, 1} : destroyed' = destroyed + d
         /\ UNCHANGED <<live, rc, val, brk, inst, constructed>>

\* ------------------------------------------------------------ AtomicImmut::new
InitCell(v) ==
    /\ word = 0
    /\ ptr = 1
    /\ alive = TRUE
    /\ live = [a \in Addr |-> a = 1]
    /\ rc = [a \in Addr |-> IF a = 1 THEN 1 ELSE 0]
    /\ val = [a \in Addr |-> IF a = 1 THEN v ELSE 0]
    /\ brk = 1
    /\ fault = FALSE
    /\ pc = [t \in Threads |-> "idle"]
    /\ op = [t \in Threads |-> "none"]
    /\ lold = [t \in Threads |-> NULL]
    /\ lnew = [t \in Threads |-> NULL]
    /\ held = [t \in Threads |-> [a \in Addr |-> 0]]
    /\ ncalls = [t \in Threads |-> 0]
    /\ calls = 0
    /\ inst = [a \in Addr |-> IF a = 1 THEN 1 ELSE 0]
    /\ epoch = 1
    /\ constructed = 1
    /\ destroyed = 0
    /\ opEpoch = [t \in Threads |-> 0]
    /\ ldEpoch = [t \in Threads |-> 0]
    /\ rdEpoch = [t \in Threads |-> 0]
    /\ myInst = [t \in Threads |-> 0]
    /\ iters = [t \in Threads |-> 0]

Init == \E v \in Values : InitCell(v)

\* the cell of the update test of the specification: new(0)
InitUpdate == InitCell(0)

\* ------------------------------------------------------------ SpinRwLock::rlock
\* let old = self.0.fetch_add(1, SeqCst); let mut writers = old >> reader_bits()
RlockEnter(t) ==
    /\ word' = fetch_add(word, 1)
    /\ pc' = [pc EXCEPT ![t] = IF writers_of(word) # 0 THEN "rl_spin" ELSE "ld_ptr"]

\* ------------------------------------------------------------ calls
\* A call begins with its first access to shared memory.
Invoke(t, o) ==
    /\ alive
    /\ pc[t] = "idle"
    /\ op' = [op EXCEPT ![t] = o]
    /\ opEpoch' = [opEpoch EXCEPT ![t] = epoch]

\* v.load(): `let _guard = self.rwlock.rlock()`
CallLoad(t) ==
    /\ Invoke(t, "load")
    /\ RlockEnter(t)
    /\ ldEpoch' = [ldEpoch EXCEPT ![t] = epoch]
    /\ UNCHANGED <<ptr, alive, heap, lold, lnew, held, epoch, rdEpoch, myInst, iters>>

\* v.update(f): the first iteration starts with self.load()
CallUpdate(t) ==
    /\ Invoke(t, "update")
    /\ RlockEnter(t)
    /\ ldEpoch' = [ldEpoch EXCEPT ![t] = epoch]
    /\ iters' = [iters EXCEPT ![t] = 1]
    /\ UNCHANGED <<ptr, alive, heap, lold, lnew, held, epoch, rdEpoch, myInst>>

\* v.swap(value) and v.store(value): `let new = to_arc_ptr(value)`
CallSwap(t, o, v) ==
    /\ Invoke(t, o)
    /\ \E a \in FreeAddrs :
          /\ Allocated(a, v)
          /\ lnew' = [lnew EXCEPT ![t] = a]
    /\ pc' = [pc EXCEPT ![t] = "wl_add"]
    /\ UNCHANGED <<word, ptr, alive, lold, held, epoch, ldEpoch, rdEpoch, myInst, iters>>

\* rlock of the load that starts a further iteration of update
RlockAdd(t) ==
    /\ pc[t] = "rl_add"
    /\ RlockEnter(t)
    /\ UNCHANGED <<ptr, alive, heap, op, lold, lnew, held, ncalls, calls, hist>>

\* mutant: the reader stops waiting whatever writer count it reads
RlockSpin_NoWait(t) ==
    /\ pc[t] = "rl_spin"
    /\ pc' = [pc EXCEPT ![t] = "ld_ptr"]
    /\ UNCHANGED <<word, ptr, alive, heap, op, lold, lnew, held, ncalls, calls, hist>>

\* writers = self.0.load(SeqCst) >> reader_bits(), while writers != 0
RlockSpin(t) ==
    /\ pc[t] = "rl_spin"
    /\ pc' = [pc EXCEPT ![t] = IF writers_of(word) # 0 THEN "rl_spin" ELSE "ld_ptr"]
    /\ UNCHANGED <<word, ptr, alive, heap, op, lold, lnew, held, ncalls, calls, hist>>

\* ------------------------------------------------------------ SpinRwLock::wlock
\* where the caller of wlock goes on once it holds the lock
\* mutant: update calls f and builds its candidate once it holds the lock
AfterWlock_ThenApply(t) == IF op[t] = "update" THEN "up_f" ELSE "sw_xchg"

AfterWlock(t) == IF op[t] = "update" THEN "up_cas" ELSE "sw_xchg"

\* mutant: the writer proceeds whatever its fetch_add returned
WlockAdd_NoCheck(t) ==
    /\ pc[t] = "wl_add"
    /\ word' = fetch_add(word, ONE_WRITER)
    /\ pc' = [pc EXCEPT ![t] = AfterWlock(t)]
    /\ UNCHANGED <<ptr, alive, heap, op, lold, lnew, held, ncalls, calls, hist>>

\* mutant: the writer looks at the writer count only, not at the whole word
WlockAdd_IgnoreReaders(t) ==
    /\ pc[t] = "wl_add"
    /\ word' = fetch_add(word, ONE_WRITER)
    /\ pc' = [pc EXCEPT ![t] = IF writers_of(word) # 0 THEN "wl_undo" ELSE AfterWlock(t)]
    /\ UNCHANGED <<ptr, alive, heap, op, lold, lnew, held, ncalls, calls, hist>>

\* self.0.fetch_add(1 << reader_bits(), SeqCst) != 0
WlockAdd(t) ==
    /\ pc[t] = "wl_add"
    /\ word' = fetch_add(word, ONE_WRITER)
    /\ pc' = [pc EXCEPT ![t] = IF word # 0 THEN "wl_undo" ELSE AfterWlock(t)]
    /\ UNCHANGED <<ptr, alive, heap, op, lold, lnew, held, ncalls, calls, hist>>

\* mutant: a failed attempt is not undone
WlockUndo_NoSub(t) ==
    /\ pc[t] = "wl_undo"
    /\ pc' = [pc EXCEPT ![t] = "wl_spin"]
    /\ UNCHANGED <<word, ptr, alive, heap, op, lold, lnew, held, ncalls, calls, hist>>

WlockUndo(t) ==
    /\ pc[t] = "wl_undo"
    /\ word' = fetch_sub(word, ONE_WRITER)
    /\ pc' = [pc EXCEPT ![t] = "wl_spin"]
    /\ UNCHANGED <<ptr, alive, heap, op, lold, lnew, held, ncalls, calls, hist>>

WlockSpin(t) ==
    /\ pc[t] = "wl_spin"
    /\ pc' = [pc EXCEPT ![t] = IF word # 0 THEN "wl_spin" ELSE "wl_add"]
    /\ UNCHANGED <<word, ptr, alive, heap, op, lold, lnew, held, ncalls, calls, hist>>

\* the call of t returns: its history variables are cleared
Returned(t) ==
    /\ op' = [op EXCEPT ![t] = "none"]
    /\ opEpoch' = [opEpoch EXCEPT ![t] = 0]
    /\ ldEpoch' = [ldEpoch EXCEPT ![t] = 0]
    /\ rdEpoch' = [rdEpoch EXCEPT ![t] = 0]
    /\ iters' = [iters EXCEPT ![t] = 0]

\* ------------------------------------------------------------ AtomicImmut::load
\* let ptr = self.ptr.load(SeqCst)
LoadPtr(t) ==
    /\ pc[t] = "ld_ptr"
    /\ lold' = [lold EXCEPT ![t] = ptr]
    /\ rdEpoch' = [rdEpoch EXCEPT ![t] = epoch]
    /\ pc' = [pc EXCEPT ![t] = "ld_clone"]
    /\ UNCHANGED <<word, ptr, alive, heap, op, lnew, held, ncalls, calls,
                   epoch, opEpoch, ldEpoch, myInst, iters>>

\* mutant: the handle is rebuilt from the raw pointer without the clone
LoadClone_NoIncrement(t) ==
    /\ pc[t] = "ld_clone"
    /\ pc' = [pc EXCEPT ![t] = "ld_unlock"]
    /\ UNCHANGED <<word, ptr, alive, heap, locals_but_pc, hist>>

\* let value = Arc::from_raw(ptr); mem::forget(Arc::clone(&value))
LoadClone(t) ==
    /\ pc[t] = "ld_clone"
    /\ StrongInc(lold[t])
    /\ pc' = [pc EXCEPT ![t] = "ld_unlock"]
    /\ UNCHANGED <<word, ptr, alive, locals_but_pc, hist>>

\* mutant: load returns without runlock
LoadReturn_NoRunlock(t) ==
    /\ pc[t] = "ld_unlock"
    /\ IF op[t] = "update"
       THEN /\ pc' = [pc EXCEPT ![t] = "up_f"]
            /\ UNCHANGED <<op, lold, held, opEpoch, ldEpoch, rdEpoch, iters>>
       ELSE /\ pc' = [pc EXCEPT ![t] = "idle"]
            /\ Returned(t)
            /\ held' = [held EXCEPT ![t][lold[t]] = @ + 1]
            /\ lold' = [lold EXCEPT ![t] = NULL]
    /\ UNCHANGED <<word, ptr, alive, heap, lnew, ncalls, calls, hist_kept>>

\* `value` is returned and _guard dropped: SpinRwLock::runlock.  load's
\* caller is either the user (who keeps the handle) or update.
LoadReturn(t) ==
    /\ pc[t] = "ld_unlock"
    /\ word' = fetch_sub(word, 1)
    /\ IF op[t] = "update"
       THEN /\ pc' = [pc EXCEPT ![t] = "up_f"]
            /\ UNCHANGED <<op, lold, held, opEpoch, ldEpoch, rdEpoch, iters>>
       ELSE /\ pc' = [pc EXCEPT ![t] = "idle"]
            /\ Returned(t)
            /\ held' = [held EXCEPT ![t][lold[t]] = @ + 1]
            /\ lold' = [lold EXCEPT ![t] = NULL]
    /\ UNCHANGED <<ptr, alive, heap, lnew, ncalls, calls, hist_kept>>

\* ------------------------------------------------------------ AtomicImmut::swap
\* mutant: the exchange clones the old value as load does
SwapExchange_Cloning(t) ==
    /\ pc[t] = "sw_xchg"
    /\ lold' = [lold EXCEPT ![t] = ptr]
    /\ ptr' = lnew[t]
    /\ epoch' = epoch + 1
    /\ inst' = [inst EXCEPT ![lnew[t]] = epoch + 1]
    /\ rc' = [rc EXCEPT ![ptr] = @ + 1]
    /\ myInst' = [myInst EXCEPT ![t] = epoch + 1]
    /\ pc' = [pc EXCEPT ![t] = "sw_unlock"]
    /\ UNCHANGED <<word, alive, live, val, brk, fault, constructed, destroyed,
                   op, lnew, held, ncalls, calls, opEpoch, ldEpoch, rdEpoch, iters>>

\* mutant: the exchange writes back the pointer it read instead of `new`
SwapExchange_NoPublish(t) ==
    /\ pc[t] = "sw_xchg"
    /\ lold' = [lold EXCEPT ![t] = ptr]
    /\ ptr' = ptr
    /\ epoch' = epoch + 1
    /\ myInst' = [myInst EXCEPT ![t] = epoch + 1]
    /\ pc' = [pc EXCEPT ![t] = "sw_unlock"]
    /\ UNCHANGED <<word, alive, heap, op, lnew, held, ncalls, calls, opEpoch, ldEpoch, rdEpoch, iters>>

\* self.ptr.swap(new, SeqCst), under the write lock
SwapExchange(t) ==
    /\ pc[t] = "sw_xchg"
    /\ lold' = [lold EXCEPT ![t] = ptr]
    /\ ptr' = lnew[t]
    /\ epoch' = epoch + 1
    /\ inst' = [inst EXCEPT ![lnew[t]] = epoch + 1]
    /\ myInst' = [myInst EXCEPT ![t] = epoch + 1]
    /\ pc' = [pc EXCEPT ![t] = "sw_unlock"]
    /\ UNCHANGED <<word, alive, live, rc, val, brk, fault, constructed, destroyed,
                   op, lnew, held, ncalls, calls, opEpoch, ldEpoch, rdEpoch, iters>>

\* mutant: swap returns without wunlock
SwapUnlock_NoWunlock(t) ==
    /\ pc[t] = "sw_unlock"
    /\ IF op[t] = "store"
       THEN /\ pc' = [pc EXCEPT ![t] = "st_drop"]
            /\ lnew' = [lnew EXCEPT ![t] = NULL]
            /\ UNCHANGED <<op, lold, held, opEpoch, ldEpoch, rdEpoch, iters>>
       ELSE /\ pc' = [pc EXCEPT ![t] = "idle"]
            /\ Returned(t)
            /\ held' = [held EXCEPT ![t][lold[t]] = @ + 1]
            /\ lold' = [lold EXCEPT ![t] = NULL]
            /\ lnew' = [lnew EXCEPT ![t] = NULL]
    /\ UNCHANGED <<word, ptr, alive, heap, ncalls, calls, hist_kept>>

\* _guard dropped (SpinRwLock::wunlock), then Arc::from_raw(old): swap returns
\* the handle to its caller; store goes on to drop it.
SwapUnlock(t) ==
    /\ pc[t] = "sw_unlock"
    /\ word' = fetch_sub(word, ONE_WRITER)
    /\ IF op[t] = "store"
       THEN /\ pc' = [pc EXCEPT ![t] = "st_drop"]
            /\ lnew' = [lnew EXCEPT ![t] = NULL]
            /\ UNCHANGED <<op, lold, held, opEpoch, ldEpoch, rdEpoch, iters>>
       ELSE /\ pc' = [pc EXCEPT ![t] = "idle"]
            /\ Returned(t)
            /\ held' = [held EXCEPT ![t][lold[t]] = @ + 1]
            /\ lold' = [lold EXCEPT ![t] = NULL]
            /\ lnew' = [lnew EXCEPT ![t] = NULL]
    /\ UNCHANGED <<ptr, alive, heap, ncalls, calls, hist_kept>>

\* mutant: store forgets the Arc that swap returned
StoreDrop_Forget(t) ==
    /\ pc[t] = "st_drop"
    /\ pc' = [pc EXCEPT ![t] = "idle"]
    /\ Returned(t)
    /\ lold' = [lold EXCEPT ![t] = NULL]
    /\ UNCHANGED <<word, ptr, alive, heap, lnew, held, ncalls, calls, hist_kept>>

\* AtomicImmut::store: `self.swap(value);` drops the returned Arc
StoreDrop(t) ==
    /\ pc[t] = "st_drop"
    /\ StrongDec(lold[t])
    /\ pc' = [pc EXCEPT ![t] = "idle"]
    /\ Returned(t)
    /\ lold' = [lold EXCEPT ![t] = NULL]
    /\ UNCHANGED <<word, ptr, alive, lnew, held, ncalls, calls, hist_kept>>

\* ------------------------------------------------------------ AtomicImmut::update
\* let new = to_arc_ptr(f(&old))
UpdateApply(t) ==
    /\ pc[t] = "up_f"
    /\ \E a \in FreeAddrs :
          /\ Allocated(a, f(val[lold[t]]))
          /\ lnew' = [lnew EXCEPT ![t] = a]
    /\ pc' = [pc EXCEPT ![t] = "up_drop"]
    /\ UNCHANGED <<word, ptr, alive, op, lold, held, ncalls, calls, hist>>

\* let old = Arc::into_raw(old) as *mut _; unsafe { Arc::from_raw(old) };
\* the handle that load returned is dropped, its address is kept
UpdateDropLoaded(t) ==
    /\ pc[t] = "up_drop"
    /\ StrongDec(lold[t])
    /\ pc' = [pc EXCEPT ![t] = "wl_add"]
    /\ UNCHANGED <<word, ptr, alive, locals_but_pc, hist>>

\* mutant: the compare never succeeds
UpdateCas_NeverEqual(t) ==
    /\ pc[t] = "up_cas"
    /\ pc' = [pc EXCEPT ![t] = "up_rel_new"]
    /\ UNCHANGED <<word, ptr, alive, heap, locals_but_pc, hist>>

\* self.ptr.compare_and_swap(old, new, SeqCst) == old, under the write lock
UpdateCas(t) ==
    /\ pc[t] = "up_cas"
    /\ IF ptr = lold[t]
       THEN /\ ptr' = lnew[t]
            /\ epoch' = epoch + 1
            /\ inst' = [inst EXCEPT ![lnew[t]] = epoch + 1]
            /\ myInst' = [myInst EXCEPT ![t] = epoch + 1]
            /\ pc' = [pc EXCEPT ![t] = "up_rel_old"]
       ELSE /\ pc' = [pc EXCEPT ![t] = "up_rel_new"]
            /\ UNCHANGED <<ptr, epoch, inst, myInst>>
    /\ UNCHANGED <<word, alive, live, rc, val, brk, fault, constructed, destroyed,
                   locals_but_pc, opEpoch, ldEpoch, rdEpoch, iters>>

\* mutant: after a successful compare the candidate is released
UpdateReleaseOld_WrongPtr(t) ==
    /\ pc[t] = "up_rel_old"
    /\ StrongDec(lnew[t])
    /\ pc' = [pc EXCEPT ![t] = "up_unlock_done"]
    /\ UNCHANGED <<word, ptr, alive, locals_but_pc, hist>>

\* the compare succeeded: unsafe { Arc::from_raw(old) }; break
UpdateReleaseOld(t) ==
    /\ pc[t] = "up_rel_old"
    /\ StrongDec(lold[t])
    /\ pc' = [pc EXCEPT ![t] = "up_unlock_done"]
    /\ UNCHANGED <<word, ptr, alive, locals_but_pc, hist>>

\* mutant: after a failed compare the candidate is not released
UpdateReleaseNew_Leak(t) ==
    /\ pc[t] = "up_rel_new"
    /\ pc' = [pc EXCEPT ![t] = "up_unlock_retry"]
    /\ UNCHANGED <<word, ptr, alive, heap, locals_but_pc, hist>>

\* mutant: after a failed compare `old` is released instead of `new`
UpdateReleaseNew_ReleaseOld(t) ==
    /\ pc[t] = "up_rel_new"
    /\ StrongDec(lold[t])
    /\ pc' = [pc EXCEPT ![t] = "up_unlock_retry"]
    /\ UNCHANGED <<word, ptr, alive, locals_but_pc, hist>>

\* the compare failed: unsafe { Arc::from_raw(new) }
UpdateReleaseNew(t) ==
    /\ pc[t] = "up_rel_new"
    /\ StrongDec(lnew[t])
    /\ pc' = [pc EXCEPT ![t] = "up_unlock_retry"]
    /\ UNCHANGED <<word, ptr, alive, locals_but_pc, hist>>

\* _guard dropped at the break: update returns
UpdateUnlockDone(t) ==
    /\ pc[t] = "up_unlock_done"
    /\ word' = fetch_sub(word, ONE_WRITER)
    /\ pc' = [pc EXCEPT ![t] = "idle"]
    /\ Returned(t)
    /\ lold' = [lold EXCEPT ![t] = NULL]
    /\ lnew' = [lnew EXCEPT ![t] = NULL]
    /\ UNCHANGED <<ptr, alive, heap, held, ncalls, calls, hist_kept>>

\* mutant: the write guard outlives the loop body
UpdateUnlockRetry_NoUnlock(t) ==
    /\ pc[t] = "up_unlock_retry"
    /\ pc' = [pc EXCEPT ![t] = "rl_add"]
    /\ lold' = [lold EXCEPT ![t] = NULL]
    /\ lnew' = [lnew EXCEPT ![t] = NULL]
    /\ ldEpoch' = [ldEpoch EXCEPT ![t] = epoch]
    /\ rdEpoch' = [rdEpoch EXCEPT ![t] = 0]
    /\ iters' = [iters EXCEPT ![t] = @ + 1]
    /\ UNCHANGED <<word, ptr, alive, heap, op, held, ncalls, calls, epoch, opEpoch, myInst>>

\* _guard dropped at the end of the loop body: the next iteration starts
\* with self.load()
UpdateUnlockRetry(t) ==
    /\ pc[t] = "up_unlock_retry"
    /\ word' = fetch_sub(word, ONE_WRITER)
    /\ pc' = [pc EXCEPT ![t] = "rl_add"]
    /\ lold' = [lold EXCEPT ![t] = NULL]
    /\ lnew' = [lnew EXCEPT ![t] = NULL]
    /\ ldEpoch' = [ldEpoch EXCEPT ![t] = epoch]
    /\ rdEpoch' = [rdEpoch EXCEPT ![t] = 0]
    /\ iters' = [iters EXCEPT ![t] = @ + 1]
    /\ UNCHANGED <<ptr, alive, heap, op, held, ncalls, calls, epoch, opEpoch, myInst>>

\* ------------------------------------------------------------ drops
\* the user drops an Arc<T> that load or swap returned
DropHandle(t, a) ==
    /\ pc[t] = "idle"
    /\ held[t][a] > 0
    /\ StrongDec(a)
    /\ held' = [held EXCEPT ![t][a] = @ - 1]
    /\ UNCHANGED <<word, ptr, alive, pc, op, lold, lnew, ncalls, calls, hist>>

\* Drop for AtomicImmut: needs &mut self, so no call is in progress
DropCell ==
    /\ alive
    /\ \A t \in Threads : pc[t] = "idle"
    /\ alive' = FALSE
    /\ ptr' = NULL
    /\ StrongDec(ptr)
    /\ UNCHANGED <<word, locals, hist>>

\* ------------------------------------------------------------ specifications
\* Threads issue any calls, MaxCalls in all; handles are dropped at any time
\* and the cell is dropped once no call is in progress.
Counted == calls < MaxCalls /\ calls' = calls + 1 /\ UNCHANGED ncalls

UserLoad(t) == Counted /\ CallLoad(t)
UserUpdate(t) == Counted /\ CallUpdate(t)
UserSwap(t, v) == Counted /\ CallSwap(t, "swap", v)
UserStore(t, v) == Counted /\ CallSwap(t, "store", v)

Next ==
    \/ \E t \in Threads : UserLoad(t)
    \/ \E t \in Threads : UserUpdate(t)
    \/ \E t \in Threads, v \in Values : UserSwap(t, v)
    \/ \E t \in Threads, v \in Values : UserStore(t, v)
    \/ \E t \in Threads : RlockAdd(t)
    \/ \E t \in Threads : RlockSpin(t)
    \/ \E t \in Threads : WlockAdd(t)
    \/ \E t \in Threads : WlockUndo(t)
    \/ \E t \in Threads : WlockSpin(t)
    \/ \E t \in Threads : LoadPtr(t)
    \/ \E t \in Threads : LoadClone(t)
    \/ \E t \in Threads : LoadReturn(t)
    \/ \E t \in Threads : SwapExchange(t)
    \/ \E t \in Threads : SwapUnlock(t)
    \/ \E t \in Threads : StoreDrop(t)
    \/ \E t \in Threads : UpdateApply(t)
    \/ \E t \in Threads : UpdateDropLoaded(t)
    \/ \E t \in Threads : UpdateCas(t)
    \/ \E t \in Threads : UpdateReleaseOld(t)
    \/ \E t \in Threads : UpdateReleaseNew(t)
    \/ \E t \in Threads : UpdateUnlockDone(t)
    \/ \E t \in Threads : UpdateUnlockRetry(t)
    \/ \E t \in Threads, a \in Addr : DropHandle(t, a)
    \/ DropCell

Spec == Init /\ [][Next]_vars

\* Threads call load and store only, MaxLoadStoreCalls times in all, as in
\* multithread_test and the benches; the handles that load returns are
\* dropped at any time.
LoaderCall(t) ==
    /\ calls < MaxLoadStoreCalls
    /\ calls' = calls + 1
    /\ UNCHANGED ncalls
    /\ CallLoad(t)

StorerCall(t, v) ==
    /\ calls < MaxLoadStoreCalls
    /\ calls' = calls + 1
    /\ UNCHANGED ncalls
    /\ CallSwap(t, "store", v)

NextLoadStore ==
    \/ \E t \in Threads : LoaderCall(t)
    \/ \E t \in Threads, v \in Values : StorerCall(t, v)
    \/ \E t \in Threads : RlockSpin(t)
    \/ \E t \in Threads : WlockAdd(t)
    \/ \E t \in Threads : WlockUndo(t)
    \/ \E t \in Threads : WlockSpin(t)
    \/ \E t \in Threads : LoadPtr(t)
    \/ \E t \in Threads : LoadClone(t)
    \/ \E t \in Threads : LoadReturn(t)
    \/ \E t \in Threads : SwapExchange(t)
    \/ \E t \in Threads : SwapUnlock(t)
    \/ \E t \in Threads : StoreDrop(t)
    \/ \E t \in Threads, a \in Addr : DropHandle(t, a)

SpecLoadStore == Init /\ [][NextLoadStore]_vars

\* N threads each call update(|x| x + 1) k times on a cell initialised to 0.
UpdaterCall(t) ==
    /\ ncalls[t] < UpdatesPerThread
    /\ ncalls' = [ncalls EXCEPT ![t] = @ + 1]
    /\ UNCHANGED calls
    /\ CallUpdate(t)

NextUpdate ==
    \/ \E t \in Threads : UpdaterCall(t)
    \/ \E t \in Threads : RlockAdd(t)
    \/ \E t \in Threads : RlockSpin(t)
    \/ \E t \in Threads : WlockAdd(t)
    \/ \E t \in Threads : WlockUndo(t)
    \/ \E t \in Threads : WlockSpin(t)
    \/ \E t \in Threads : LoadPtr(t)
    \/ \E t \in Threads : LoadClone(t)
    \/ \E t \in Threads : LoadReturn(t)
    \/ \E t \in Threads : UpdateApply(t)
    \/ \E t \in Threads : UpdateDropLoaded(t)
    \/ \E t \in Threads : UpdateCas(t)
    \/ \E t \in Threads : UpdateReleaseOld(t)
    \/ \E t \in Threads : UpdateReleaseNew(t)
    \/ \E t \in Threads : UpdateUnlockDone(t)
    \/ \E t \in Threads : UpdateUnlockRetry(t)

SpecUpdate == InitUpdate /\ [][NextUpdate]_vars

\* ------------------------------------------------------------ scheduling
\* The steps of the code of load and store, and of all four operations.  A
\* thread that is inside a call is a running thread: the scheduler lets it
\* take its next step eventually (weak fairness).  Nothing obliges a user to
\* issue a call or to drop a handle.
LoadStoreStep(t) ==
    \/ RlockSpin(t)
    \/ WlockAdd(t)
    \/ WlockUndo(t)
    \/ WlockSpin(t)
    \/ LoadPtr(t)
    \/ LoadClone(t)
    \/ LoadReturn(t)
    \/ SwapExchange(t)
    \/ SwapUnlock(t)
    \/ StoreDrop(t)

UpdateStep(t) ==
    \/ RlockAdd(t)
    \/ UpdateApply(t)
    \/ UpdateDropLoaded(t)
    \/ UpdateCas(t)
    \/ UpdateReleaseOld(t)
    \/ UpdateReleaseNew(t)
    \/ UpdateUnlockDone(t)
    \/ UpdateUnlockRetry(t)

CodeStep(t) == LoadStoreStep(t) \/ UpdateStep(t)

\* Threads call load, store and update on a cell initialised to 0, MaxCalls
\* times in all, and keep the handles they get.  store is swap followed by
\* the drop of what swap returns, so every step of swap is taken.
NextFair ==
    \/ \E t \in Threads : UserLoad(t)
    \/ \E t \in Threads : UserUpdate(t)
    \/ \E t \in Threads, v \in Values : UserStore(t, v)
    \/ \E t \in Threads : CodeStep(t)

SpecFair ==
    /\ InitUpdate
    /\ [][NextFair]_vars
    /\ \A t \in Threads : WF_vars(CodeStep(t))

\* Threads call load and store only, MaxCalls times in all, and keep the
\* handles they get.
NextLoadStoreFair ==
    \/ \E t \in Threads : UserLoad(t)
    \/ \E t \in Threads, v \in Values : UserStore(t, v)
    \/ \E t \in Threads : LoadStoreStep(t)

SpecLoadStoreFair ==
    /\ Init
    /\ [][NextLoadStoreFair]_vars
    /\ \A t \in Threads : WF_vars(LoadStoreStep(t))

\* Sustained reader pressure: threads call load as often as they like, each
\* dropping the handle it got before it calls load again, and call store
\* MaxStores times in all.
NoHandles(t) == \A a \in Addr : held[t][a] = 0

ReaderCall(t) ==
    /\ NoHandles(t)
    /\ CallLoad(t)
    /\ UNCHANGED <<ncalls, calls>>

WriterCall(t, v) ==
    /\ calls < MaxStores
    /\ calls' = calls + 1
    /\ UNCHANGED ncalls
    /\ CallSwap(t, "store", v)

NextReaders ==
    \/ \E t \in Threads : ReaderCall(t)
    \/ \E t \in Threads, v \in Values : WriterCall(t, v)
    \/ \E t \in Threads : LoadStoreStep(t)
    \/ \E t \in Threads, a \in Addr : DropHandle(t, a)

SpecReaders ==
    /\ Init
    /\ [][NextReaders]_vars
    /\ \A t \in Threads : WF_vars(LoadStoreStep(t))

\* ------------------------------------------------------------ model sanity
AllocatorNeverFull == brk < NumAddrs

\* ------------------------------------------------------------ vocabulary
Quiescent == \A t \in Threads : pc[t] = "idle"

\* t has returned from wlock and not yet released the write lock
HoldsWrite(t) ==
    pc[t] \in {"sw_xchg", "sw_unlock", "up_cas", "up_rel_old", "up_rel_new",
               "up_unlock_done", "up_unlock_retry"}

\* t has returned from rlock and not yet released the read lock
HoldsRead(t) == pc[t] \in {"ld_ptr", "ld_clone", "ld_unlock"}

\* t's fetch_add on the writer half is not yet matched by a fetch_sub
WriterAdded(t) == HoldsWrite(t) \/ pc[t] = "wl_undo"

\* t's fetch_add in rlock is not yet matched by runlock's fetch_sub
ReaderAdded(t) == pc[t] \in {"rl_spin", "ld_ptr", "ld_clone", "ld_unlock"}

\* what the threads of S have added to the lock word and not yet subtracted
UnitsOf(S) ==
    Cardinality({t \in S : ReaderAdded(t)})
        + (2 ^ reader_bits) * Cardinality({t \in S : WriterAdded(t)})

\* the local `old`/`value` of t owns a unit of the strong count
OwnsOld(t) == pc[t] \in {"ld_unlock", "up_f", "up_drop", "sw_unlock", "st_drop"}

\* handles to a that users keep
HeldCount(a) ==
    LET S[n \in 0..NumThreads] == IF n = 0 THEN 0 ELSE S[n - 1] + held[n][a]
    IN S[NumThreads]

\* handles to a: those users keep and those still in a call's local
Handles(a) == HeldCount(a) + Cardinality({t \in Threads : OwnsOld(t) /\ lold[t] = a})

\* ------------------------------------------------------------ claims

\* C1: when N threads each call update(|x| x + 1) k times on a cell
\* initialised to 0, the cell holds N*k once all calls have returned.
C1_NoLostUpdate ==
    (\A t \in Threads : pc[t] = "idle" /\ ncalls[t] = UpdatesPerThread)
        => val[ptr] = NumThreads * UpdatesPerThread

\* C2: a handle that a user keeps refers to a live allocation whose strong
\* count is at least the number of handles to it, and from one state to the
\* next the allocation stays live with the same value as long as the handle
\* is kept, whatever store/swap/update calls happen.
C2_SnapshotValid ==
    /\ [](\A a \in Addr : HeldCount(a) > 0 => live[a] /\ rc[a] >= HeldCount(a))
    /\ [][\A t \in Threads, a \in Addr :
            (held[t][a] > 0 /\ held'[t][a] > 0) => live'[a] /\ val'[a] = val[a]]_vars

\* a handle to a value that a later store replaced is still kept, and the
\* slot holds another value
C2_Witness ==
    \E t \in Threads, a \in Addr :
        /\ held[t][a] > 0 /\ alive /\ a # ptr
        /\ inst[a] >= 1 /\ inst[a] < epoch
        /\ val[a] # val[ptr]

\* C3: while the cell is alive the slot holds the address of a live
\* allocation with strong count >= 1; between load's read of the slot and
\* its increment the slot still holds what load read, live and counted, and
\* no freed allocation is ever accessed.
C3_SlotValid ==
    /\ ~fault
    /\ alive => (ptr \in Addr /\ live[ptr] /\ rc[ptr] >= 1)
    /\ \A t \in Threads :
          pc[t] = "ld_clone" => (lold[t] = ptr /\ live[lold[t]] /\ rc[lold[t]] >= 1)

\* a load is between its read and its increment while a writer, whose
\* attempt to take the lock failed, waits
C3_Witness ==
    \E t, u \in Threads :
        /\ pc[t] = "ld_clone"
        /\ pc[u] \in {"wl_undo", "wl_spin"}

\* C4: no count is decremented below zero and nothing is freed twice; the
\* allocations made and not yet freed are exactly the live ones; and once the
\* cell and every handle are dropped, every allocation made has been freed.
C4_NoLeakNoDoubleFree ==
    /\ ~fault
    /\ destroyed <= constructed
    /\ constructed - destroyed = Cardinality({a \in Addr : live[a]})
    /\ (~alive /\ Quiescent /\ \A a \in Addr : HeldCount(a) = 0)
           => (constructed = destroyed /\ \A a \in Addr : ~live[a])

\* everything is dropped after a run in which an update discarded a candidate
C4_Witness ==
    /\ ~alive /\ Quiescent /\ \A a \in Addr : HeldCount(a) = 0
    /\ constructed > 1 + calls

\* C5: when no call is in progress, the strong count of every allocation is
\* the number of handles users keep to it, plus one for the allocation in
\* the slot.
C5_CountAccounting ==
    Quiescent =>
        \A a \in Addr :
            rc[a] = HeldCount(a) + (IF alive /\ a = ptr THEN 1 ELSE 0)

\* a thread keeps one handle to the slot's value (count 2) and one handle
\* that swap returned (count 1)
C5_Witness ==
    /\ Quiescent /\ alive
    /\ \E t \in Threads, b \in Addr :
          /\ held[t][ptr] = 1 /\ rc[ptr] = 2
          /\ b # ptr /\ held[t][b] = 1 /\ rc[b] = 1

\* C6: the handle a load is about to return references a live allocation
\* that was installed in the slot, and that was the slot's content at some
\* instant since the load was invoked.
C6_LoadPublished ==
    \A t \in Threads :
        pc[t] = "ld_unlock" =>
            /\ live[lold[t]]
            /\ inst[lold[t]] >= 1
            /\ inst[lold[t]] >= ldEpoch[t]
            /\ inst[lold[t]] <= epoch

\* a load returns a value installed after the load was invoked
C6_Witness ==
    \E t \in Threads :
        /\ pc[t] = "ld_unlock" /\ op[t] = "load"
        /\ inst[lold[t]] > ldEpoch[t]

\* C7: after its exchange a swap/store owns the allocation that was in the
\* slot immediately before that exchange, live and counted; no two calls own
\* the same one; while the caller still holds the write lock the slot holds
\* its new value; and the exchange itself changes no strong count.
C7_SwapHandsOver ==
    /\ [](\A t \in Threads :
            pc[t] \in {"sw_unlock", "st_drop"} =>
                /\ live[lold[t]] /\ rc[lold[t]] >= 1
                /\ inst[lold[t]] = myInst[t] - 1
                /\ (pc[t] = "sw_unlock" => ptr = lnew[t] /\ inst[ptr] = myInst[t])
                /\ \A u \in Threads :
                      (u # t /\ pc[u] \in {"sw_unlock", "st_drop"}) => lold[u] # lold[t])
    /\ [][\A t \in Threads :
            (pc[t] = "sw_xchg" /\ pc'[t] = "sw_unlock")
                => (rc' = rc /\ live' = live /\ lold'[t] = ptr /\ ptr' = lnew[t])]_vars

\* two calls have exchanged and not yet returned or dropped what they got
C7_Witness ==
    \E t, u \in Threads :
        /\ t # u
        /\ pc[t] = "sw_unlock" /\ op[t] = "swap"
        /\ pc[u] = "st_drop"

C9_SpinOnlyOnHolder ==
    \A t \in Threads :
        (pc[t] = "rl_spin" /\ writers_of(word) # 0)
            => \E u \in Threads : HoldsWrite(u)

\* C9 amended: whenever a registered reader spins on a nonzero writer count,
\* some writer holds the write lock or has added itself to the writer count
\* in a failed attempt that it has not yet undone.
C9_SpinOnlyOnWriterAdd ==
    \A t \in Threads :
        (pc[t] = "rl_spin" /\ writers_of(word) # 0)
            => \E u \in Threads : u # t /\ WriterAdded(u)

\* a reader spins while no writer holds the lock
C9_Witness ==
    \E t \in Threads :
        /\ pc[t] = "rl_spin" /\ writers_of(word) # 0
        /\ \A u \in Threads : ~HoldsWrite(u)

\* C10: an update during which no other call replaced the slot makes one
\* iteration (one call of f); it installs f of the value that was in the
\* slot when it was invoked; the new allocation has count 1 when update
\* releases the old one, whose count is one more than the handles to it; and
\* releasing the old one takes one unit off it, freeing it if that was the
\* last.
C10_UncontendedUpdate ==
    /\ [](\A t \in Threads :
            (pc[t] \in {"up_rel_old", "up_unlock_done"} /\ epoch = opEpoch[t] + 1) =>
                /\ iters[t] = 1
                /\ ptr = lnew[t] /\ rc[ptr] = 1
                /\ pc[t] = "up_rel_old" =>
                      /\ live[lold[t]]
                      /\ inst[lold[t]] = opEpoch[t]
                      /\ val[ptr] = f(val[lold[t]])
                      /\ rc[lold[t]] = 1 + Handles(lold[t]))
    /\ [][\A t \in Threads :
            (pc[t] = "up_rel_old" /\ pc'[t] = "up_unlock_done" /\ epoch = opEpoch[t] + 1) =>
                IF rc[lold[t]] = 1
                THEN ~live'[lold[t]] /\ destroyed' = destroyed + 1
                ELSE live'[lold[t]] /\ rc'[lold[t]] = rc[lold[t]] - 1]_vars

\* an undisturbed update is about to return and has freed the old value
C10_Witness ==
    \E t \in Threads :
        /\ pc[t] = "up_unlock_done" /\ epoch = opEpoch[t] + 1
        /\ iters[t] = 1
        /\ val[ptr] >= 1
        /\ ~live[lold[t]]

\* C11: at most one thread holds the write lock, and no thread holds the
\* read lock while a thread holds the write lock; a thread comes to hold the
\* write lock only by a fetch_add that returns zero for the whole word, and
\* comes to hold the read lock only on reading a zero writer count.
C11_MutualExclusion ==
    /\ [](/\ Cardinality({t \in Threads : HoldsWrite(t)}) <= 1
          /\ (\E t \in Threads : HoldsWrite(t)) => (\A u \in Threads : ~HoldsRead(u)))
    /\ [][\A t \in Threads :
            (pc[t] = "wl_add" /\ pc'[t] = AfterWlock(t)) => word = 0]_vars
    /\ [][\A t \in Threads :
            (pc[t] \notin {"ld_ptr", "ld_clone", "ld_unlock"} /\ pc'[t] = "ld_ptr")
                => writers_of(word) = 0]_vars

\* a reader has registered and spins while a writer holds the lock
C11_Witness ==
    \E t, u \in Threads :
        /\ HoldsWrite(t)
        /\ pc[u] = "rl_spin"
        /\ word = ONE_WRITER + 1

\* several threads hold the read lock together
C11_ReadersShare == Cardinality({t \in Threads : HoldsRead(t)}) >= 2

\* C12: when the compare-and-swap of an update iteration has succeeded, no
\* other install happened since this iteration's load read the slot, so that
\* the allocation replaced is the one the load returned, and the value
\* installed is f of the value replaced.
C12_CasReplacesObserved ==
    \A t \in Threads :
        pc[t] = "up_rel_old" =>
            /\ epoch = rdEpoch[t] + 1
            /\ val[ptr] = f(val[lold[t]])

\* C13: the compare-and-swap of an update iteration fails only if the slot
\* was replaced after this iteration's load read it; the failed compare
\* changes neither the slot nor any strong count; the candidate, whose count
\* is 1, is then released once, which frees it and leaves the slot and the
\* count of the slot's allocation as they were; and after the write lock is
\* released the loop starts a further iteration with a load.
C13_FailedCas ==
    /\ [](\A t \in Threads :
            pc[t] \in {"up_rel_new", "up_unlock_retry"} =>
                /\ epoch > rdEpoch[t]
                /\ ptr # lold[t]
                /\ ptr # lnew[t]
                /\ pc[t] = "up_rel_new" => (live[lnew[t]] /\ rc[lnew[t]] = 1))
    /\ [][\A t \in Threads :
            (pc[t] = "up_cas" /\ pc'[t] = "up_rel_new")
                => (ptr' = ptr /\ rc' = rc /\ live' = live)]_vars
    /\ [][\A t \in Threads :
            (pc[t] = "up_rel_new" /\ pc'[t] = "up_unlock_retry") =>
                /\ ptr' = ptr /\ rc'[ptr] = rc[ptr] /\ live'[ptr]
                /\ ~live'[lnew[t]]
                /\ destroyed' = destroyed + 1
                /\ ~fault']_vars
    /\ [][\A t \in Threads :
            (pc[t] = "up_unlock_retry" /\ pc'[t] # "up_unlock_retry") =>
                /\ pc'[t] = "rl_add"
                /\ iters'[t] = iters[t] + 1
                /\ ptr' = ptr /\ rc' = rc]_vars

\* an update has discarded its first candidate and is about to retry
C13_Witness ==
    \E t \in Threads :
        /\ pc[t] = "up_unlock_retry" /\ iters[t] = 1
        /\ epoch > rdEpoch[t]
        /\ destroyed >= 1

\* C14: a thread that holds the write lock has its new allocation already
\* (live, count 1, not yet in the slot before the exchange or compare), and
\* every step that calls f or allocates a value is taken by a thread that
\* neither holds the write lock nor has a unit in the writer count: the
\* writer count is then made up by the other threads alone.
C14_BuildOffLock ==
    /\ [](\A t \in Threads :
            (HoldsWrite(t) \/ pc[t] \in {"wl_add", "wl_undo", "wl_spin"}) =>
                /\ lnew[t] \in Addr
                /\ pc[t] \in {"wl_add", "wl_undo", "wl_spin", "sw_xchg", "up_cas"}
                      => (live[lnew[t]] /\ rc[lnew[t]] = 1 /\ lnew[t] # ptr))
    /\ [][\A t \in Threads :
            (lnew'[t] # lnew[t] /\ lnew'[t] # NULL) =>
                /\ constructed' = constructed + 1
                /\ ~HoldsWrite(t) /\ ~HoldsRead(t)
                /\ writers_of(word) = Cardinality({u \in Threads \ {t} : WriterAdded(u)})
                /\ pc'[t] \in {"wl_add", "up_drop"}]_vars

\* one thread holds the write lock while another one is building the
\* candidate of its update
C14_Witness ==
    \E t, u \in Threads :
        /\ HoldsWrite(t)
        /\ pc[u] = "up_drop" /\ live[lnew[u]]

\* C15: a thread that is about to call rlock or wlock (at the start of a
\* call, between load and wlock in update, before the load of a further
\* iteration of update, or between two attempts inside wlock) has nothing in
\* the lock word: the word is made up by the other threads alone.
C15_NoNestedAcquisition ==
    \A t \in Threads :
        pc[t] \in {"idle", "rl_add", "up_f", "up_drop", "wl_add", "wl_spin", "st_drop"}
            => word = UnitsOf(Threads \ {t})

\* an update whose compare failed has released the write lock and is about
\* to call rlock for the load of its second iteration
C15_Witness ==
    \E t \in Threads :
        /\ pc[t] = "rl_add" /\ iters[t] = 2
        /\ word = 0

\* C19: the lock word is the number of threads between rlock's fetch_add and
\* runlock, plus 2^reader_bits times the number of threads between a
\* fetch_add of wlock and the fetch_sub that matches it (the undo of a
\* failed attempt, or wunlock); neither half ever wraps; and the word is zero
\* whenever no call is in progress.
C19_WordAccounting ==
    /\ word = UnitsOf(Threads)
    /\ word % (2 ^ reader_bits) <= NumThreads
    /\ word \div (2 ^ reader_bits) <= NumThreads
    /\ Quiescent => word = 0

\* the word holds a reader's unit and the unit of a writer whose attempt
\* failed and is not yet undone
C19_Witness ==
    \E t, u \in Threads :
        /\ pc[t] = "wl_undo"
        /\ HoldsRead(u)
        /\ word = (2 ^ reader_bits) + 1

\* C17: under weak fairness of every thread's steps a thread that has
\* registered as a reader and waits in rlock eventually returns from rlock,
\* and every load eventually returns; while a reader is registered no writer
\* comes to hold the write lock.
C17_ReadersNotStarved ==
    /\ \A t \in Threads : (pc[t] = "rl_spin") ~> (pc[t] = "ld_ptr")
    /\ \A t \in Threads : (op[t] = "load") ~> (op[t] = "none")
    /\ [][\A t, u \in Threads :
            (ReaderAdded(t) /\ pc[u] = "wl_add") => pc'[u] # AfterWlock(u)]_vars

\* a registered reader waits in rlock for a writer that has exchanged the
\* slot and is about to release the write lock
C17_Witness ==
    \E t, u \in Threads :
        /\ pc[t] = "rl_spin" /\ op[t] = "load"
        /\ pc[u] = "sw_unlock"
        /\ writers_of(word) = 1

\* C18: when the calls issued are finitely many (MaxCalls), under weak
\* fairness of every thread's steps there comes a time from which no call is
\* in progress, that is, every call returns; the iterations an update has
\* begun are at most one more than the installs other threads made since
\* the update was invoked; and in every state with a call in progress some
\* thread can take a step that changes the state.
C18_Termination ==
    /\ <>[]Quiescent
    /\ [](\A t \in Threads :
            op[t] = "update" =>
                iters[t] <= 1 + (epoch - opEpoch[t])
                              - (IF pc[t] \in {"up_rel_old", "up_unlock_done"} THEN 1 ELSE 0))
    /\ []((\E t \in Threads : pc[t] # "idle")
            => ENABLED <<\E t \in Threads : CodeStep(t)>>_vars)

\* an update is about to return from its second iteration, one other
\* install having happened since it was invoked
C18_Witness ==
    \E t \in Threads :
        /\ pc[t] = "up_unlock_done"
        /\ iters[t] = 2
        /\ epoch = opEpoch[t] + 2

\* The round of a reader r about a waiting writer w: r registers before w's
\* fetch_add, w's attempt fails and is undone, r finishes its load and drops
\* the handle, w reads a zero word and goes back to its fetch_add.  All the
\* other threads are idle.
Round(w, r, pcw, pcr, wd) ==
    /\ w # r
    /\ alive
    /\ op[w] = "store" /\ pc[w] = pcw
    /\ pc[r] = pcr
    /\ word = wd
    /\ \A x \in Threads \ {w, r} : pc[x] = "idle"

Round1(w, r) == Round(w, r, "wl_add", "idle", 0) /\ NoHandles(r)
Round2(w, r) == Round(w, r, "wl_add", "ld_ptr", 1) /\ NoHandles(r)
Round3(w, r) == Round(w, r, "wl_undo", "ld_ptr", ONE_WRITER + 1) /\ NoHandles(r)
Round4(w, r) == Round(w, r, "wl_spin", "ld_ptr", 1) /\ NoHandles(r)
Round5(w, r) == Round(w, r, "wl_spin", "ld_clone", 1) /\ NoHandles(r) /\ lold[r] = ptr
Round6(w, r) == Round(w, r, "wl_spin", "ld_unlock", 1) /\ NoHandles(r) /\ lold[r] = ptr
Round7(w, r) ==
    /\ Round(w, r, "wl_spin", "idle", 0)
    /\ \A a \in Addr : held[r][a] = (IF a = ptr THEN 1 ELSE 0)

\* C16: a writer can be kept out for ever by readers that each hold the
\* read lock only finitely long.  From every reachable state in which a
\* writer is about to make its fetch_add and a reader is idle, the round
\* above can be run, step by step, back to such a state: both threads take
\* steps in it (so the run that repeats it is weakly fair), the reader
\* acquires and releases the read lock, and the writer's fetch_add does not
\* find the word zero, so that its wlock does not return.
C16_WriterStarvation ==
    \A w, r \in Threads :
        /\ Round1(w, r) => ENABLED (ReaderCall(r) /\ Round2(w, r)')
        /\ Round2(w, r) => ENABLED (WlockAdd(w) /\ Round3(w, r)')
        /\ Round3(w, r) => ENABLED (WlockUndo(w) /\ Round4(w, r)')
        /\ Round4(w, r) => ENABLED (LoadPtr(r) /\ Round5(w, r)')
        /\ Round5(w, r) => ENABLED (LoadClone(r) /\ Round6(w, r)')
        /\ Round6(w, r) => ENABLED (LoadReturn(r) /\ Round7(w, r)')
        /\ Round7(w, r) => ENABLED (DropHandle(r, ptr) /\ Round(w, r, "wl_spin", "idle", 0)'
                                       /\ NoHandles(r)')
        /\ (Round(w, r, "wl_spin", "idle", 0) /\ NoHandles(r))
               => ENABLED (WlockSpin(w) /\ Round1(w, r)')

\* the writer's attempt has just failed on the unit of a reader that holds
\* the read lock
C16_Witness == \E w, r \in Threads : Round3(w, r)

\* what C16 denies: every wlock eventually returns
C16_EveryWlockReturns ==
    \A t \in Threads : (pc[t] = "wl_add") ~> HoldsWrite(t)

====
